---- MODULE Spec2Model ----
(***************************************************************************)
(* Model of lib/bowl.py: the tree builder _CustomHTMLParser driven by the  *)
(* html.parser tokenizer, and parse_document.                              *)
(*                                                                         *)
(* Nodes live in a heap `nodes` (a sequence; the index is the object        *)
(* identity, so `is` and the default `==` of DOMNode are index equality).  *)
(* A child entry is either a reference to a node or a text leaf.           *)
(***************************************************************************)
EXTENDS Integers, Sequences, FiniteSets, TLC

\* ---------------------------------------------------------------- bounds
\* Number of tokens of the source string the tokenizer delivers.
MaxTokens == 4

\* Number of DOMNode objects on the heap when a client builds a tree.
MaxNodes == 3

\* Number of text leaves a client appends.
MaxText == 1

\* Number of owners (nodes and the document) that build an index.
MaxBuilds == 1

\* Length of the argument list given to Command.parse_args.
MaxArgs == 2

\* Number of where clauses a Repository accumulates.
MaxClauses == 2

\* ------------------------------------------------------- python values
\* Python's None, distinct from every string the model uses as data.
None == "<None>"

\* Exception state of the running parse_document call.
NoError == "none"

\* ------------------------------------------------------------- inputs
\* Tag names as written in the markup.
RawTags == {"p", "title", "TITLE", "br", "BR", "html", "DOCUMENT_ROOT"}

\* Attribute lists of a start tag, as html.parser delivers them:
\* (key, value) pairs in source order, value None for a bare attribute.
AttrLists ==
    { <<>>,
      << <<"id", "a">> >>,
      << <<"id", "a">>, <<"id", "b">> >>,
      << <<"class", "x y">>, <<"hidden", None>> >> }

\* Text runs of the markup.
TextData == {"Hi", "World"}

\* Character and entity references of the markup.
References == {"&amp;", "&#65;"}

\* html.parser lowercases the names of start and end tags.
Lower(name) ==
    CASE name = "TITLE" -> "title"
      [] name = "BR" -> "br"
      [] name = "DOCUMENT_ROOT" -> "document_root"
      [] OTHER -> name

\* html.unescape, applied by html.parser to text when convert_charrefs is on.
unescape(ref) ==
    CASE ref = "&amp;" -> "&"
      [] ref = "&#65;" -> "A"
      [] OTHER -> ref

\* HTMLParser.__init__(*, convert_charrefs=True): the constructor of
\* _CustomHTMLParser calls super().__init__() without arguments.
convert_charrefs == TRUE

\* ---------------------------------------------------------- module names
\* Names bound at module level in lib/bowl.py (imports, classes, functions
\* and the one module constant).
GlobalNames ==
    { "annotations", "List", "Dict", "Any", "Optional", "Union",
      "HTMLParser", "name2codepoint", "DOMNode", "DOMDocument",
      "_VOID_TAGS", "_CustomHTMLParser", "parse_document" }

_VOID_TAGS ==
    { "area", "base", "br", "col", "embed", "hr", "img",
      "input", "link", "meta", "source", "track", "wbr" }

\* A root tag spelled the way the tokenizer spells end-tag names.
ROOT_TAG_lowercase == "document_root"

\* Tag of the synthetic root created by _CustomHTMLParser.__init__.
ROOT_TAG == "DOCUMENT_ROOT"

\* ------------------------------------------------------------- the state
VARIABLES
    nodes,       \* heap of DOMNode objects: Seq of [tag, attrs, children]
    node_stack,  \* _CustomHTMLParser.node_stack: Seq of node identities
    title,       \* _CustomHTMLParser.title
    pc,          \* parse_document: "feeding", "raised" or "returned"
    err,         \* the exception that left parse_document, or NoError
    doc,         \* result of parse_document: <<>> or <<DOMDocument record>>
    pos,         \* number of tokens delivered so far
    ev,          \* the token delivered last
    call,        \* the call a client of the DOM made last
    ret,         \* what that call returned: <<>> for None, else <<value>>
    threads,     \* the query each client thread is running, and how far
    cmd,         \* <<>> or <<a cask Command with its last parse_args call>>
    repo         \* <<>> or <<a barrel Repository with what it executed>>

vars ==
    <<nodes, node_stack, title, pc, err, doc, pos, ev, call, ret,
      threads, cmd, repo>>

\* What the parser and the single-threaded clients of the DOM never touch.
elsewhere == <<threads, cmd, repo>>

\* No client thread, no Command and no Repository exist.
Nowhere == threads = <<>> /\ cmd = <<>> /\ repo = <<>>

\* Identity of _CustomHTMLParser.root_node.
root_node == 1

\* ---------------------------------------------------------------- DOMNode
\* A child entry that refers to the root whatever node it is made for.
ChildNode_root(n) == [kind |-> "node", id |-> root_node, data |-> ""]

\* Child entries of DOMNode.children: a DOMNode reference or a str.
ChildNode(n) == [kind |-> "node", id |-> n, data |-> ""]
TextLeaf(d) == [kind |-> "text", id |-> 0, data |-> d]

\* DOMNode.__init__(tag, attrs): children defaults to the empty list, the
\* three index maps are empty dicts and not built.
DOMNode(tag, attrs) ==
    [ tag |-> tag, attrs |-> attrs, children |-> <<>>,
      _has_id_index |-> FALSE, _id_to_node_map |-> <<>>,
      _has_tag_index |-> FALSE, _tag_to_node_map |-> <<>>,
      _has_class_index |-> FALSE, _class_to_node_map |-> <<>> ]

\* DOMDocument.__init__(root, page_title).
DOMDocument(root, page_title) ==
    [ root |-> root, page_title |-> page_title,
      _has_id_index |-> FALSE, _id_to_node_map |-> <<>>,
      _has_tag_index |-> FALSE, _tag_to_node_map |-> <<>>,
      _has_class_index |-> FALSE, _class_to_node_map |-> <<>> ]

\* append_child with list.insert(0, child) in place of list.append(child).
append_child_front(heap, n, child) ==
    [heap EXCEPT ![n].children = << child >> \o @]

\* DOMNode.append_child on the heap.
append_child(heap, n, child) ==
    [heap EXCEPT ![n].children = Append(@, child)]

\* The loop of handle_starttag that turns the pair list into a dict:
\* a later pair with the same key overwrites the earlier one.
RECURSIVE dom_attrs(_)
dom_attrs(pairs) ==
    IF pairs = <<>> THEN <<>>
    ELSE LET last == pairs[Len(pairs)]
             rest == dom_attrs(SubSeq(pairs, 1, Len(pairs) - 1))
         IN (last[1] :> last[2]) @@ rest

\* ---------------------------------------------------------- the handlers
Top == node_stack[Len(node_stack)]

\* An exception propagates out of feed, accumulate and parse_document.
Raise(e) == err' = e /\ pc' = "raised"

\* handle_starttag with the new node pushed before the void test is made.
handle_starttag_push_first(tag, attrs) ==
    IF node_stack = <<>>
    THEN /\ Raise("IndexError")
         /\ UNCHANGED <<nodes, node_stack, title>>
    ELSE LET dom == Len(nodes) + 1
         IN /\ nodes' = Append(append_child(nodes, Top, ChildNode(dom)),
                               DOMNode(tag, dom_attrs(attrs)))
            /\ title' = title
            /\ node_stack' = Append(node_stack, dom)
            /\ IF "VOID_TAGS" \in GlobalNames
               THEN UNCHANGED <<pc, err>>
               ELSE Raise("NameError")

\* The name looked up by the void test is VOID_TAGS; node_stack[-1] of an
\* empty list raises IndexError.
handle_starttag(tag, attrs) ==
    IF node_stack = <<>>
    THEN /\ Raise("IndexError")
         /\ UNCHANGED <<nodes, node_stack, title>>
    ELSE LET dom == Len(nodes) + 1
         IN /\ nodes' = Append(append_child(nodes, Top, ChildNode(dom)),
                               DOMNode(tag, dom_attrs(attrs)))
            /\ title' = title
            /\ IF "VOID_TAGS" \in GlobalNames
               THEN /\ node_stack' = IF tag \notin _VOID_TAGS
                                     THEN Append(node_stack, dom)
                                     ELSE node_stack
                    /\ UNCHANGED <<pc, err>>
               ELSE /\ Raise("NameError")
                    /\ node_stack' = node_stack

\* handle_endtag with the comparison inverted.
handle_endtag_pop_on_mismatch(tag) ==
    IF node_stack = <<>>
    THEN /\ Raise("IndexError")
         /\ UNCHANGED <<nodes, node_stack, title>>
    ELSE /\ node_stack' = IF tag # nodes[Top].tag
                          THEN SubSeq(node_stack, 1, Len(node_stack) - 1)
                          ELSE node_stack
         /\ UNCHANGED <<nodes, title, pc, err>>

handle_endtag(tag) ==
    IF node_stack = <<>>
    THEN /\ Raise("IndexError")
         /\ UNCHANGED <<nodes, node_stack, title>>
    ELSE /\ node_stack' = IF tag = nodes[Top].tag
                          THEN SubSeq(node_stack, 1, Len(node_stack) - 1)
                          ELSE node_stack
         /\ UNCHANGED <<nodes, title, pc, err>>

handle_data(data) ==
    IF Len(node_stack) > 0
    THEN /\ title' = IF nodes[Top].tag = "title" /\ title = None
                     THEN data
                     ELSE title
         /\ nodes' = append_child(nodes, Top, TextLeaf(data))
         /\ UNCHANGED <<node_stack, pc, err>>
    ELSE UNCHANGED <<nodes, node_stack, title, pc, err>>

handle_comment(data) == UNCHANGED <<nodes, node_stack, title, pc, err>>

handle_entityref(name) == UNCHANGED <<nodes, node_stack, title, pc, err>>

handle_charref(name) == UNCHANGED <<nodes, node_stack, title, pc, err>>

handle_decl(data) == UNCHANGED <<nodes, node_stack, title, pc, err>>

\* ------------------------------------------------------- the indices
\* dict.get(key): None when the key is missing.
get(map, key) == IF key \in DOMAIN map THEN << map[key] >> ELSE <<>>

\* map[key].append(node), after map[key] = [] for a key not yet in map.
append_to(map, key, node) ==
    IF key \in DOMAIN map
    THEN [map EXCEPT ![key] = Append(@, node)]
    ELSE (key :> << node >>) @@ map

RECURSIVE DOMNode_build_tag_index_reversed(_, _, _)
RECURSIVE DOMNode_tag_children_reversed(_, _, _, _)
\* The child loop run from the last child to the first.
DOMNode_tag_children_reversed(heap, map, node, i) ==
    IF i < 1
    THEN map
    ELSE LET child == heap[node].children[i]
             m == IF child.kind = "node"
                  THEN DOMNode_build_tag_index_reversed(heap, map, child.id)
                  ELSE map
         IN DOMNode_tag_children_reversed(heap, m, node, i - 1)

\* DOMNode._build_tag_index visiting the children in reverse order.
DOMNode_build_tag_index_reversed(heap, map, node) ==
    DOMNode_tag_children_reversed(
        heap, append_to(map, heap[node].tag, node), node,
        Len(heap[node].children))

RECURSIVE DOMNode_build_tag_index(_, _, _)
RECURSIVE DOMNode_tag_children(_, _, _, _)
\* The loop `for child in node.children` of DOMNode._build_tag_index,
\* from child i on; the map is filled in place along the way.
DOMNode_tag_children(heap, map, node, i) ==
    IF i > Len(heap[node].children)
    THEN map
    ELSE LET child == heap[node].children[i]
             m == IF child.kind = "node"
                  THEN DOMNode_build_tag_index(heap, map, child.id)
                  ELSE map
         IN DOMNode_tag_children(heap, m, node, i + 1)

\* DOMNode._build_tag_index(node): the map after the call.
DOMNode_build_tag_index(heap, map, node) ==
    DOMNode_tag_children(heap, append_to(map, heap[node].tag, node), node, 1)

RECURSIVE DOMDocument_build_tag_index(_, _, _)
RECURSIVE DOMDocument_tag_children(_, _, _, _)
\* The loop `for child in node.children` of DOMDocument._build_tag_index.
DOMDocument_tag_children(heap, map, node, i) ==
    IF i > Len(heap[node].children)
    THEN map
    ELSE LET child == heap[node].children[i]
             m == IF child.kind = "node"
                  THEN DOMDocument_build_tag_index(heap, map, child.id)
                  ELSE map
         IN DOMDocument_tag_children(heap, m, node, i + 1)

\* DOMDocument._build_tag_index(node): the map after the call.
DOMDocument_build_tag_index(heap, map, node) ==
    DOMDocument_tag_children(
        heap, append_to(map, heap[node].tag, node), node, 1)

\* A call made by a client of the DOM; owner 0 is the DOMDocument.
Call(op, owner, name) == [op |-> op, owner |-> owner, name |-> name]
NoCall == Call("none", 0, "")

\* DOMNode.get_by_tag that runs the build on every call.
DOMNode_get_by_tag_rebuild(self, name) ==
    LET map == DOMNode_build_tag_index(
                   nodes, nodes[self]._tag_to_node_map, self)
    IN /\ nodes' = [nodes EXCEPT ![self]._tag_to_node_map = map,
                                 ![self]._has_tag_index = TRUE]
       /\ ret' = get(map, name)
       /\ call' = Call("get_by_tag", self, name)
       /\ doc' = doc

\* DOMNode.get_by_tag: the flag is set when the build returns from the
\* owner itself (`node is self`), which is the outermost call.
DOMNode_get_by_tag(self, name) ==
    LET map == IF ~nodes[self]._has_tag_index
               THEN DOMNode_build_tag_index(
                        nodes, nodes[self]._tag_to_node_map, self)
               ELSE nodes[self]._tag_to_node_map
    IN /\ nodes' = [nodes EXCEPT ![self]._tag_to_node_map = map,
                                 ![self]._has_tag_index = TRUE]
       /\ ret' = get(map, name)
       /\ call' = Call("get_by_tag", self, name)
       /\ doc' = doc

\* DOMDocument.get_by_tag storing the map in the root node as well.
DOMDocument_get_by_tag_shared(name) ==
    LET self == doc[1]
        map == IF ~self._has_tag_index
               THEN DOMDocument_build_tag_index(
                        nodes, self._tag_to_node_map, self.root)
               ELSE self._tag_to_node_map
    IN /\ doc' = << [self EXCEPT !._tag_to_node_map = map,
                                 !._has_tag_index = TRUE] >>
       /\ ret' = get(map, name)
       /\ call' = Call("get_by_tag", 0, name)
       /\ nodes' = [nodes EXCEPT ![self.root]._tag_to_node_map = map,
                                 ![self.root]._has_tag_index = TRUE]

\* DOMDocument.get_by_tag: the build starts at self.root.
DOMDocument_get_by_tag(name) ==
    LET self == doc[1]
        map == IF ~self._has_tag_index
               THEN DOMDocument_build_tag_index(
                        nodes, self._tag_to_node_map, self.root)
               ELSE self._tag_to_node_map
    IN /\ doc' = << [self EXCEPT !._tag_to_node_map = map,
                                 !._has_tag_index = TRUE] >>
       /\ ret' = get(map, name)
       /\ call' = Call("get_by_tag", 0, name)
       /\ nodes' = nodes

\* dict.get(key) on node.attrs: None when the node lacks the attribute.
attr_get(attrs, key) == IF key \in DOMAIN attrs THEN attrs[key] ELSE None

\* Truth value of an attribute value in `if id_attr:` and `if class_attr:`
\* (None and the empty string are false).
truthy(value) == value # None /\ value # ""

\* str.split() on the class attribute values the model uses: the list of
\* whitespace-separated tokens, repetitions kept.
split(value) ==
    CASE value = "x x" -> << "x", "x" >>
      [] value = "x y" -> << "x", "y" >>
      [] value = "" -> <<>>
      [] OTHER -> << value >>

\* The loop `for class_name in classes`.
RECURSIVE append_all(_, _, _)
append_all(map, classes, node) ==
    IF classes = <<>>
    THEN map
    ELSE append_all(append_to(map, Head(classes), node), Tail(classes), node)

RECURSIVE DOMNode_build_id_index(_, _, _)
RECURSIVE DOMNode_id_children(_, _, _, _)
DOMNode_id_children(heap, map, node, i) ==
    IF i > Len(heap[node].children)
    THEN map
    ELSE LET child == heap[node].children[i]
             m == IF child.kind = "node"
                  THEN DOMNode_build_id_index(heap, map, child.id)
                  ELSE map
         IN DOMNode_id_children(heap, m, node, i + 1)

\* DOMNode._build_id_index(node): the map after the call.
DOMNode_build_id_index(heap, map, node) ==
    LET id_attr == attr_get(heap[node].attrs, "id")
        m == IF truthy(id_attr) THEN (id_attr :> node) @@ map ELSE map
    IN DOMNode_id_children(heap, m, node, 1)

RECURSIVE DOMDocument_build_id_index_unguarded(_, _, _)
RECURSIVE DOMDocument_id_children_unguarded(_, _, _, _)
DOMDocument_id_children_unguarded(heap, map, node, i) ==
    IF i > Len(heap[node].children)
    THEN map
    ELSE LET child == heap[node].children[i]
             m == IF child.kind = "node"
                  THEN DOMDocument_build_id_index_unguarded(heap, map, child.id)
                  ELSE map
         IN DOMDocument_id_children_unguarded(heap, m, node, i + 1)

\* DOMDocument._build_id_index without the test of id_attr.
DOMDocument_build_id_index_unguarded(heap, map, node) ==
    LET id_attr == attr_get(heap[node].attrs, "id")
    IN DOMDocument_id_children_unguarded(heap, (id_attr :> node) @@ map, node, 1)

RECURSIVE DOMDocument_build_id_index(_, _, _)
RECURSIVE DOMDocument_id_children(_, _, _, _)
DOMDocument_id_children(heap, map, node, i) ==
    IF i > Len(heap[node].children)
    THEN map
    ELSE LET child == heap[node].children[i]
             m == IF child.kind = "node"
                  THEN DOMDocument_build_id_index(heap, map, child.id)
                  ELSE map
         IN DOMDocument_id_children(heap, m, node, i + 1)

\* DOMDocument._build_id_index(node): the map after the call.
DOMDocument_build_id_index(heap, map, node) ==
    LET id_attr == attr_get(heap[node].attrs, "id")
        m == IF truthy(id_attr) THEN (id_attr :> node) @@ map ELSE map
    IN DOMDocument_id_children(heap, m, node, 1)

RECURSIVE DOMNode_build_class_index(_, _, _)
RECURSIVE DOMNode_class_children(_, _, _, _)
DOMNode_class_children(heap, map, node, i) ==
    IF i > Len(heap[node].children)
    THEN map
    ELSE LET child == heap[node].children[i]
             m == IF child.kind = "node"
                  THEN DOMNode_build_class_index(heap, map, child.id)
                  ELSE map
         IN DOMNode_class_children(heap, m, node, i + 1)

\* DOMNode._build_class_index(node): the map after the call.
DOMNode_build_class_index(heap, map, node) ==
    LET class_attr == attr_get(heap[node].attrs, "class")
        m == IF truthy(class_attr)
             THEN append_all(map, split(class_attr), node)
             ELSE map
    IN DOMNode_class_children(heap, m, node, 1)

RECURSIVE DOMDocument_build_class_index(_, _, _)
RECURSIVE DOMDocument_class_children(_, _, _, _)
DOMDocument_class_children(heap, map, node, i) ==
    IF i > Len(heap[node].children)
    THEN map
    ELSE LET child == heap[node].children[i]
             m == IF child.kind = "node"
                  THEN DOMDocument_build_class_index(heap, map, child.id)
                  ELSE map
         IN DOMDocument_class_children(heap, m, node, i + 1)

\* DOMDocument._build_class_index(node): the map after the call.
DOMDocument_build_class_index(heap, map, node) ==
    LET class_attr == attr_get(heap[node].attrs, "class")
        m == IF truthy(class_attr)
             THEN append_all(map, split(class_attr), node)
             ELSE map
    IN DOMDocument_class_children(heap, m, node, 1)

\* DOMNode.get_by_id marking all three indices as built.
DOMNode_get_by_id_marks_all(self, name) ==
    LET map == IF ~nodes[self]._has_id_index
               THEN DOMNode_build_id_index(
                        nodes, nodes[self]._id_to_node_map, self)
               ELSE nodes[self]._id_to_node_map
    IN /\ nodes' = [nodes EXCEPT ![self]._id_to_node_map = map,
                                 ![self]._has_id_index = TRUE,
                                 ![self]._has_tag_index = TRUE,
                                 ![self]._has_class_index = TRUE]
       /\ ret' = get(map, name)
       /\ call' = Call("get_by_id", self, name)
       /\ doc' = doc

\* DOMNode.get_by_id
DOMNode_get_by_id(self, name) ==
    LET map == IF ~nodes[self]._has_id_index
               THEN DOMNode_build_id_index(
                        nodes, nodes[self]._id_to_node_map, self)
               ELSE nodes[self]._id_to_node_map
    IN /\ nodes' = [nodes EXCEPT ![self]._id_to_node_map = map,
                                 ![self]._has_id_index = TRUE]
       /\ ret' = get(map, name)
       /\ call' = Call("get_by_id", self, name)
       /\ doc' = doc

\* DOMDocument.get_by_id
DOMDocument_get_by_id(name) ==
    LET self == doc[1]
        map == IF ~self._has_id_index
               THEN DOMDocument_build_id_index(
                        nodes, self._id_to_node_map, self.root)
               ELSE self._id_to_node_map
    IN /\ doc' = << [self EXCEPT !._id_to_node_map = map,
                                 !._has_id_index = TRUE] >>
       /\ ret' = get(map, name)
       /\ call' = Call("get_by_id", 0, name)
       /\ nodes' = nodes

\* DOMNode.get_by_class_name
DOMNode_get_by_class_name(self, name) ==
    LET map == IF ~nodes[self]._has_class_index
               THEN DOMNode_build_class_index(
                        nodes, nodes[self]._class_to_node_map, self)
               ELSE nodes[self]._class_to_node_map
    IN /\ nodes' = [nodes EXCEPT ![self]._class_to_node_map = map,
                                 ![self]._has_class_index = TRUE]
       /\ ret' = get(map, name)
       /\ call' = Call("get_by_class_name", self, name)
       /\ doc' = doc

\* DOMDocument.get_by_class_name
DOMDocument_get_by_class_name(name) ==
    LET self == doc[1]
        map == IF ~self._has_class_index
               THEN DOMDocument_build_class_index(
                        nodes, self._class_to_node_map, self.root)
               ELSE self._class_to_node_map
    IN /\ doc' = << [self EXCEPT !._class_to_node_map = map,
                                 !._has_class_index = TRUE] >>
       /\ ret' = get(map, name)
       /\ call' = Call("get_by_class_name", 0, name)
       /\ nodes' = nodes

\* ------------------------------------------------------ the tokenizer
Token(kind, tag, attrs, data) ==
    [kind |-> kind, tag |-> tag, attrs |-> attrs, data |-> data]

\* feed() is running and the source has a further token.
Feeding == pc = "feeding" /\ pos < MaxTokens

Deliver(tok) ==
    ev' = tok /\ pos' = pos + 1 /\ doc' = doc /\ UNCHANGED <<call, ret, elsewhere>>

FeedStartTag ==
    \E raw \in RawTags, attrs \in AttrLists :
        /\ Feeding
        /\ Deliver(Token("StartTag", Lower(raw), attrs, ""))
        /\ handle_starttag(Lower(raw), attrs)

FeedEndTag ==
    \E raw \in RawTags :
        /\ Feeding
        /\ Deliver(Token("EndTag", Lower(raw), <<>>, ""))
        /\ handle_endtag(Lower(raw))

FeedText ==
    \E data \in TextData :
        /\ Feeding
        /\ Deliver(Token("Text", "", <<>>, data))
        /\ handle_data(data)

\* With convert_charrefs on, a reference is part of the text run: it is
\* unescaped and handed to handle_data; handle_charref and
\* handle_entityref are called only when convert_charrefs is off.
FeedReference ==
    \E ref \in References :
        /\ Feeding
        /\ Deliver(Token("Reference", "", <<>>, ref))
        /\ IF convert_charrefs
           THEN handle_data(unescape(ref))
           ELSE IF ref = "&amp;" THEN handle_entityref(ref)
                                ELSE handle_charref(ref)

FeedComment ==
    /\ Feeding
    /\ Deliver(Token("Comment", "", <<>>, "c"))
    /\ handle_comment("c")

FeedDecl ==
    /\ Feeding
    /\ Deliver(Token("Declaration", "", <<>>, "DOCTYPE html"))
    /\ handle_decl("DOCTYPE html")

\* End of the source: feed returns, accumulate asserts and returns the
\* root, parse_document wraps it in a DOMDocument.
Return ==
    /\ pc = "feeding"
    /\ IF node_stack = <<>>
       THEN Raise("IndexError") /\ doc' = doc
       ELSE IF root_node # node_stack[1]
       THEN Raise("AssertionError") /\ doc' = doc
       ELSE /\ doc' = << DOMDocument(root_node, title) >>
            /\ pc' = "returned"
            /\ err' = err
    /\ UNCHANGED <<nodes, node_stack, title, pos, ev, call, ret, elsewhere>>

\* ------------------------------------------------------ specification
Init ==
    /\ nodes = << DOMNode(ROOT_TAG, <<>>) >>
    /\ node_stack = << root_node >>
    /\ title = None
    /\ pc = "feeding"
    /\ err = NoError
    /\ doc = <<>>
    /\ pos = 0
    /\ ev = Token("none", "", <<>>, "")
    /\ call = NoCall
    /\ ret = <<>>
    /\ Nowhere

Next ==
    \/ FeedStartTag
    \/ FeedEndTag
    \/ FeedText
    \/ FeedReference
    \/ FeedComment
    \/ FeedDecl
    \/ Return

Spec == Init /\ [][Next]_vars

\* ------------------------------------------- a client of the DOM surface
\* Tags and attributes of the nodes a client creates, and the keys it
\* queries.
ClientTags == {"p", "div"}
ClientAttrs == { <<>> }
QueryTags == {"p", ROOT_TAG}

parser == <<node_stack, title, pc, err, pos, ev>>

TextLeaves(heap) ==
    Cardinality({ <<q, i>> \in (1..Len(heap)) \X (1..(MaxNodes + MaxText)) :
                    /\ i <= Len(heap[q].children)
                    /\ heap[q].children[i].kind = "text" })

\* Number of index maps built so far, over all owners.
Built ==
    Cardinality({ n \in 1..Len(nodes) : nodes[n]._has_tag_index })
    + Cardinality({ n \in 1..Len(nodes) : nodes[n]._has_id_index })
    + Cardinality({ n \in 1..Len(nodes) : nodes[n]._has_class_index })
    + (IF doc # <<>> /\ doc[1]._has_tag_index THEN 1 ELSE 0)
    + (IF doc # <<>> /\ doc[1]._has_id_index THEN 1 ELSE 0)
    + (IF doc # <<>> /\ doc[1]._has_class_index THEN 1 ELSE 0)

\* The client holds the Document that parse_document returned.
ClientRuns == pc = "returned" /\ doc # <<>>

\* parent.append_child(DOMNode(tag, attrs))
AppendNode ==
    \E parent \in 1..Len(nodes), tag \in ClientTags, attrs \in ClientAttrs :
        /\ ClientRuns
        /\ Len(nodes) < MaxNodes
        /\ nodes' = Append(append_child(nodes, parent,
                                        ChildNode(Len(nodes) + 1)),
                           DOMNode(tag, dom_attrs(attrs)))
        /\ call' = Call("append_child", 0, "")
        /\ ret' = <<>>
        /\ UNCHANGED <<parser, doc, elsewhere>>

\* parent.append_child(text)
AppendText ==
    \E parent \in 1..Len(nodes), data \in {"Hi"} :
        /\ ClientRuns
        /\ TextLeaves(nodes) < MaxText
        /\ nodes' = append_child(nodes, parent, TextLeaf(data))
        /\ call' = Call("append_child", 0, "")
        /\ ret' = <<>>
        /\ UNCHANGED <<parser, doc, elsewhere>>

NodeGetByTag ==
    \E self \in 1..Len(nodes), name \in QueryTags :
        /\ ClientRuns
        /\ nodes[self]._has_tag_index \/ Built < MaxBuilds
        /\ DOMNode_get_by_tag(self, name)
        /\ UNCHANGED <<parser, elsewhere>>

DocGetByTag ==
    \E name \in QueryTags :
        /\ ClientRuns
        /\ doc[1]._has_tag_index \/ Built < MaxBuilds
        /\ DOMDocument_get_by_tag(name)
        /\ UNCHANGED <<parser, elsewhere>>

\* The state after parse_document("") has returned.
InitDOM ==
    /\ nodes = << DOMNode(ROOT_TAG, <<>>) >>
    /\ node_stack = << root_node >>
    /\ title = None
    /\ pc = "returned"
    /\ err = NoError
    /\ doc = << DOMDocument(root_node, None) >>
    /\ pos = 0
    /\ ev = Token("none", "", <<>>, "")
    /\ call = NoCall
    /\ ret = <<>>
    /\ Nowhere

NextDOM ==
    \/ AppendNode
    \/ AppendText
    \/ NodeGetByTag
    \/ DocGetByTag

SpecDOM == InitDOM /\ [][NextDOM]_vars

\* ------------------------------- a client that queries all three indices
\* Attributes of the nodes this client creates (all with tag p), and the
\* keys it queries.
IndexedAttrs ==
    { << <<"id", "a">>, <<"class", "x y">> >>,
      << <<"id", "">>, <<"class", "x x">> >> }
IdKeys == {"a", ""}
ClassKeys == {"x", "y"}

\* parent.append_child(DOMNode("p", attrs))
AppendIndexedNode ==
    \E parent \in 1..Len(nodes), attrs \in IndexedAttrs :
        /\ ClientRuns
        /\ Len(nodes) < MaxNodes
        /\ nodes' = Append(append_child(nodes, parent,
                                        ChildNode(Len(nodes) + 1)),
                           DOMNode("p", dom_attrs(attrs)))
        /\ call' = Call("append_child", 0, "")
        /\ ret' = <<>>
        /\ UNCHANGED <<parser, doc, elsewhere>>

NodeGetById ==
    \E self \in 1..Len(nodes), name \in IdKeys :
        /\ ClientRuns
        /\ nodes[self]._has_id_index \/ Built < MaxBuilds
        /\ DOMNode_get_by_id(self, name)
        /\ UNCHANGED <<parser, elsewhere>>

DocGetById ==
    \E name \in IdKeys :
        /\ ClientRuns
        /\ doc[1]._has_id_index \/ Built < MaxBuilds
        /\ DOMDocument_get_by_id(name)
        /\ UNCHANGED <<parser, elsewhere>>

NodeGetByClassName ==
    \E self \in 1..Len(nodes), name \in ClassKeys :
        /\ ClientRuns
        /\ nodes[self]._has_class_index \/ Built < MaxBuilds
        /\ DOMNode_get_by_class_name(self, name)
        /\ UNCHANGED <<parser, elsewhere>>

DocGetByClassName ==
    \E name \in ClassKeys :
        /\ ClientRuns
        /\ doc[1]._has_class_index \/ Built < MaxBuilds
        /\ DOMDocument_get_by_class_name(name)
        /\ UNCHANGED <<parser, elsewhere>>

NextIndex ==
    \/ AppendIndexedNode
    \/ NodeGetByTag
    \/ DocGetByTag
    \/ NodeGetById
    \/ DocGetById
    \/ NodeGetByClassName
    \/ DocGetByClassName

SpecIndex == InitDOM /\ [][NextIndex]_vars

\* ------------------------- a first query, one interpreter step at a time
\* The client threads, and a thread that has made no call yet.
Threads == {1, 2}
Idle ==
    [ pc |-> "idle", owner |-> 0, kind |-> "", name |-> "",
      frames |-> <<>>, visits |-> <<>>, ret |-> <<>> ]

\* The kinds of query and the key each thread looks up.
Kinds == {"tag", "id", "class"}
KeyOf(kind) ==
    CASE kind = "tag" -> "p"
      [] kind = "id" -> "a"
      [] OTHER -> "x"

\* The owner of an index: the Document (0) or a node; its _has_*_index
\* flag, its _*_to_node_map and the node its traversal starts from.
self_of(owner) == IF owner = 0 THEN doc[1] ELSE nodes[owner]
has_index(owner, kind) ==
    CASE kind = "tag" -> self_of(owner)._has_tag_index
      [] kind = "id" -> self_of(owner)._has_id_index
      [] OTHER -> self_of(owner)._has_class_index
index_map(owner, kind) ==
    CASE kind = "tag" -> self_of(owner)._tag_to_node_map
      [] kind = "id" -> self_of(owner)._id_to_node_map
      [] OTHER -> self_of(owner)._class_to_node_map
scan_root(owner) == IF owner = 0 THEN doc[1].root ELSE owner

\* Assignment to a field of the owner.
set_owner(owner, rec) ==
    IF owner = 0
    THEN doc' = << rec >> /\ nodes' = nodes
    ELSE nodes' = [nodes EXCEPT ![owner] = rec] /\ doc' = doc

\* The statements of _build_*_index before its loop over the children:
\* what the node adds to the map.
entry(map, kind, node) ==
    CASE kind = "tag" -> append_to(map, nodes[node].tag, node)
      [] kind = "id" ->
            LET id_attr == attr_get(nodes[node].attrs, "id")
            IN IF truthy(id_attr) THEN (id_attr :> node) @@ map ELSE map
      [] OTHER ->
            LET class_attr == attr_get(nodes[node].attrs, "class")
            IN IF truthy(class_attr)
               THEN append_all(map, split(class_attr), node)
               ELSE map

\* The innermost running call of _build_*_index of thread t: its node and
\* the position of its loop (0 before the node's own entry is made).
frame(t) == threads[t].frames[Len(threads[t].frames)]
running(t) == threads[t].pc = "build" /\ threads[t].frames # <<>>
others == <<parser, call, ret, cmd, repo>>

\* get_by_*: the test `if not self._has_*_index` and, when it succeeds,
\* the call of _build_*_index on self (on self.root for a Document).
Begin(t, owner, kind) ==
    /\ threads[t].pc = "idle"
    /\ threads' = [threads EXCEPT ![t] =
          [ Idle EXCEPT
              !.owner = owner, !.kind = kind, !.name = KeyOf(kind),
              !.pc = IF has_index(owner, kind) THEN "reply" ELSE "build",
              !.frames = IF has_index(owner, kind)
                         THEN <<>>
                         ELSE << [node |-> scan_root(owner), i |-> 0] >> ]]
    /\ UNCHANGED <<nodes, doc, others>>

\* The entry of the node of the innermost call is written into the
\* owner's map, in place.
Enter(t) ==
    /\ running(t)
    /\ frame(t).i = 0
    /\ LET th == threads[t]
           map == entry(index_map(th.owner, th.kind), th.kind, frame(t).node)
       IN /\ set_owner(th.owner,
                CASE th.kind = "tag" ->
                        [self_of(th.owner) EXCEPT !._tag_to_node_map = map]
                  [] th.kind = "id" ->
                        [self_of(th.owner) EXCEPT !._id_to_node_map = map]
                  [] OTHER ->
                        [self_of(th.owner) EXCEPT !._class_to_node_map = map])
          /\ threads' = [threads EXCEPT
                ![t].frames[Len(th.frames)].i = 1,
                ![t].visits = Append(@, frame(t).node)]
    /\ UNCHANGED others

\* One round of `for child in node.children`: a DOMNode child is scanned
\* by a nested call, a str child is passed over.
Descend(t) ==
    /\ running(t)
    /\ frame(t).i \in 1..Len(nodes[frame(t).node].children)
    /\ LET th == threads[t]
           child == nodes[frame(t).node].children[frame(t).i]
           next == [th.frames EXCEPT ![Len(th.frames)].i = @ + 1]
       IN threads' = [threads EXCEPT ![t].frames =
             IF child.kind = "node"
             THEN Append(next, [node |-> child.id, i |-> 0])
             ELSE next]
    /\ UNCHANGED <<nodes, doc, others>>

\* Leave with the flag set at the end of every call, nested ones included.
Leave_every_call(t) ==
    /\ running(t)
    /\ frame(t).i > Len(nodes[frame(t).node].children)
    /\ LET th == threads[t]
           rest == SubSeq(th.frames, 1, Len(th.frames) - 1)
       IN /\ set_owner(th.owner,
                CASE th.kind = "tag" ->
                        [self_of(th.owner) EXCEPT !._has_tag_index = TRUE]
                  [] th.kind = "id" ->
                        [self_of(th.owner) EXCEPT !._has_id_index = TRUE]
                  [] OTHER ->
                        [self_of(th.owner) EXCEPT !._has_class_index = TRUE])
          /\ threads' = [threads EXCEPT
                ![t].frames = rest,
                ![t].pc = IF rest = <<>> THEN "reply" ELSE "build"]
    /\ UNCHANGED others

\* The loop of the innermost call is over: `if node is self` (is self.root)
\* sets the flag, and the call returns to its caller.
Leave(t) ==
    /\ running(t)
    /\ frame(t).i > Len(nodes[frame(t).node].children)
    /\ LET th == threads[t]
           rest == SubSeq(th.frames, 1, Len(th.frames) - 1)
       IN /\ IF frame(t).node = scan_root(th.owner)
             THEN set_owner(th.owner,
                    CASE th.kind = "tag" ->
                            [self_of(th.owner) EXCEPT !._has_tag_index = TRUE]
                      [] th.kind = "id" ->
                            [self_of(th.owner) EXCEPT !._has_id_index = TRUE]
                      [] OTHER ->
                            [self_of(th.owner) EXCEPT
                                !._has_class_index = TRUE])
             ELSE UNCHANGED <<nodes, doc>>
          /\ threads' = [threads EXCEPT
                ![t].frames = rest,
                ![t].pc = IF rest = <<>> THEN "reply" ELSE "build"]
    /\ UNCHANGED others

\* return self._*_to_node_map.get(name)
Reply(t) ==
    /\ threads[t].pc = "reply"
    /\ threads' = [threads EXCEPT
          ![t].ret = get(index_map(threads[t].owner, threads[t].kind),
                         threads[t].name),
          ![t].pc = "done"]
    /\ UNCHANGED <<nodes, doc, others>>

\* The tree is built before the threads make their calls.
NoneBegun == \A t \in DOMAIN threads : threads[t].pc = "idle"
GrowNode == NoneBegun /\ AppendIndexedNode
GrowText == NoneBegun /\ AppendText

\* ---------------------------------------------- one thread, one query
ScanBegin ==
    \E owner \in {0} \cup (1..Len(nodes)), kind \in Kinds :
        Begin(1, owner, kind)
ScanEnter == Enter(1)
ScanDescend == Descend(1)
ScanLeave == Leave(1)
ScanReply == Reply(1)

\* The state after parse_document("") has returned, with one thread.
InitScan ==
    /\ nodes = << DOMNode(ROOT_TAG, <<>>) >>
    /\ node_stack = << root_node >>
    /\ title = None
    /\ pc = "returned"
    /\ err = NoError
    /\ doc = << DOMDocument(root_node, None) >>
    /\ pos = 0
    /\ ev = Token("none", "", <<>>, "")
    /\ call = NoCall
    /\ ret = <<>>
    /\ threads = (1 :> Idle)
    /\ cmd = <<>>
    /\ repo = <<>>

NextScan ==
    \/ GrowNode
    \/ GrowText
    \/ ScanBegin
    \/ ScanEnter
    \/ ScanDescend
    \/ ScanLeave
    \/ ScanReply

\* The interpreter runs a call that has begun until it returns.
SpecScan ==
    /\ InitScan
    /\ [][NextScan]_vars
    /\ WF_vars(ScanEnter \/ ScanDescend \/ ScanLeave \/ ScanReply)

\* -------------------------- two threads, first queries on the same owner
RaceBegin ==
    \E t \in Threads, owner \in {0, root_node}, kind \in {"tag", "class"} :
        /\ \A u \in Threads :
              threads[u].pc # "idle" =>
                  threads[u].owner = owner /\ threads[u].kind = kind
        /\ Begin(t, owner, kind)
RaceEnter == \E t \in Threads : Enter(t)
RaceDescend == \E t \in Threads : Descend(t)
RaceLeave == \E t \in Threads : Leave(t)
RaceReply == \E t \in Threads : Reply(t)

InitRace ==
    /\ nodes = << DOMNode(ROOT_TAG, <<>>) >>
    /\ node_stack = << root_node >>
    /\ title = None
    /\ pc = "returned"
    /\ err = NoError
    /\ doc = << DOMDocument(root_node, None) >>
    /\ pos = 0
    /\ ev = Token("none", "", <<>>, "")
    /\ call = NoCall
    /\ ret = <<>>
    /\ threads = [t \in Threads |-> Idle]
    /\ cmd = <<>>
    /\ repo = <<>>

NextRace ==
    \/ GrowNode
    \/ RaceBegin
    \/ RaceEnter
    \/ RaceDescend
    \/ RaceLeave
    \/ RaceReply

SpecRace == InitRace /\ [][NextRace]_vars

\* ------------------------------------------------------ lib/cask.py
\* Python values as parse_args returns them, written as their repr: None,
\* True, False, an int by its digits, a str between quotes.
True == "True"
False == "False"
repr(text) == "'" \o text \o "'"

\* Arguments of the command line the model uses.
ArgTokens ==
    { "--verbose", "-v", "--verbose=true", "-v=true", "--name=a",
      "file", "7" }

\* arg.startswith("-"), arg.lstrip("-"), "=" in opt_name and
\* opt_name.split("=", 2) on those arguments.
startswith_dash(arg) ==
    arg \in {"--verbose", "-v", "--verbose=true", "-v=true", "--name=a"}
lstrip_dash(arg) ==
    CASE arg = "--verbose" -> "verbose"
      [] arg = "-v" -> "v"
      [] arg = "--verbose=true" -> "verbose=true"
      [] arg = "-v=true" -> "v=true"
      [] arg = "--name=a" -> "name=a"
      [] OTHER -> arg
contains_eq(opt_name) == opt_name \in {"verbose=true", "v=true", "name=a"}
split_eq(opt_name) ==
    CASE opt_name = "verbose=true" -> << "verbose", "true" >>
      [] opt_name = "v=true" -> << "v", "true" >>
      [] opt_name = "name=a" -> << "name", "a" >>
      [] OTHER -> << opt_name >>

\* int(value): <<>> stands for ValueError.
int(value) == IF value = "7" THEN << "7" >> ELSE <<>>

\* parse_value(value, kind): the pair (value, error).
parse_value(value, kind) ==
    CASE kind = "Int" ->
            IF int(value) # <<>>
            THEN << int(value)[1], None >>
            ELSE << "0", "invalid literal for int() with base 10: "
                         \o repr(value) >>
      [] kind = "Float" ->
            IF int(value) # <<>>
            THEN << int(value)[1] \o ".0", None >>
            ELSE << "0", "could not convert string to float: "
                         \o repr(value) >>
      [] kind = "String" -> << repr(value), None >>
      [] kind = "Bool" ->
            CASE value = "true" -> << True, None >>
              [] value = "false" -> << False, None >>
              [] OTHER -> << repr(value),
                             "Failed to parse boolean value from " \o value >>
      [] OTHER -> << "0", "Unsupported types" >>

\* Opt(name, kind, default_value=None, short="") and
\* Arg(name, kind, default_value).
Opt(name, kind, default_value, short) ==
    [ name |-> name, short |-> short, kind |-> kind,
      default_value |-> default_value ]
Arg(name, kind, default_value) ==
    [ name |-> name, kind |-> kind, default_value |-> default_value ]

\* Command.__init__: opt_maps starts empty, so the help option is always
\* appended to the declared options.
Command(opts, args) ==
    [ args |-> args,
      opts |-> Append(opts, Opt("help", "Bool", None, "")),
      opt_maps |-> <<>>,
      argv |-> <<>>,
      out |-> <<>> ]

\* The commands a program declares.
Declared ==
    { Command(<< Opt("verbose", "Bool", None, "v"),
                 Opt("name", "String", repr("n"), "") >>,
              << Arg("file", "String", None) >>),
      Command(<< Opt("verbose", "Bool", None, "v") >>, <<>>),
      Command(<<>>, << Arg("count", "Int", None) >>) }

\* What parse_args returns: (parsed_args, opts, err).
Returned(parsed_args, opts, error) ==
    [ args |-> parsed_args, opts |-> opts, err |-> error ]

\* The loop `for i, opt in enumerate(self.opts)`: the defaults, and the
\* positions of the short and long names in self.opt_maps (0-based).
RECURSIVE default_opts(_, _, _)
default_opts(values, opts, i) ==
    IF i > Len(opts)
    THEN values
    ELSE default_opts((opts[i].name :> opts[i].default_value) @@ values,
                      opts, i + 1)
RECURSIVE index_opts(_, _, _)
index_opts(opt_maps, opts, i) ==
    IF i > Len(opts)
    THEN opt_maps
    ELSE LET with_short == IF Len(opts[i].short) # 0
                           THEN (opts[i].short :> i - 1) @@ opt_maps
                           ELSE opt_maps
         IN index_opts((opts[i].name :> i - 1) @@ with_short, opts, i + 1)

\* The loop `while i < args_length` from args[i - 1] (i counts from 1
\* here), with the opts and parsed_args gathered so far.
RECURSIVE scan_args(_, _, _, _, _, _)
scan_args(self, args, cmd_args_length, i, opts, parsed_args) ==
    IF i > Len(args)
    THEN IF Len(parsed_args) < cmd_args_length
         THEN Returned(<<>>, <<>>, "not enough arguments provided")
         ELSE Returned(parsed_args, opts, None)
    ELSE LET arg == args[i] IN
    IF startswith_dash(arg)
    THEN LET stripped == lstrip_dash(arg)
             takes_next == ~contains_eq(stripped) /\ i + 1 <= Len(args)
             opt_name == IF contains_eq(stripped)
                         THEN split_eq(stripped)[1]
                         ELSE stripped
             opt_value == IF contains_eq(stripped)
                          THEN split_eq(stripped)[2]
                          ELSE IF takes_next THEN args[i + 1] ELSE "true"
             next == IF takes_next THEN i + 2 ELSE i + 1
         IN IF opt_name \in DOMAIN self.opt_maps
            THEN LET opt_index == self.opt_maps[opt_name]
                     parsed == parse_value(opt_value,
                                           self.opts[opt_index + 1].kind)
                 IN IF parsed[2] # None
                    THEN Returned(<<>>, <<>>, parsed[2])
                    ELSE scan_args(self, args, cmd_args_length, next,
                                   (opt_name :> parsed[1]) @@ opts,
                                   parsed_args)
            ELSE Returned(<<>>, <<>>, "Unknown option: " \o opt_name)
    ELSE IF Len(parsed_args) + 1 <= cmd_args_length
         THEN LET arg_info == self.args[cmd_args_length]
                  parsed == parse_value(arg, arg_info.kind)
              IN IF parsed[2] # None
                 THEN Returned(<<>>, <<>>, parsed[2])
                 ELSE IF parsed_args = <<>>
                 THEN Returned(<<>>, <<>>, "IndexError")
                 ELSE scan_args(self, args, cmd_args_length, i + 1, opts,
                                [parsed_args EXCEPT ![Len(parsed_args)] =
                                    parsed[1]])
         ELSE scan_args(self, args, cmd_args_length, i + 1, opts,
                        parsed_args)

\* Command.parse_args(args): cmd_args_length is the length of the list
\* parsed_args, taken when that list has just been made.
parse_args(self, args) ==
    LET parsed_args == <<>>
        cmd_args_length == Len(parsed_args)
        indexed == [self EXCEPT
                      !.opt_maps = index_opts(self.opt_maps, self.opts, 1)]
    IN [ indexed EXCEPT
           !.argv = args,
           !.out = << scan_args(indexed, args, cmd_args_length, 1,
                                default_opts(<<>>, self.opts, 1),
                                parsed_args) >> ]

\* Argument lists of at most n arguments.
RECURSIVE ArgLists(_)
ArgLists(n) ==
    IF n = 0
    THEN { <<>> }
    ELSE ArgLists(n - 1) \cup
         { Append(args, arg) : args \in ArgLists(n - 1), arg \in ArgTokens }

bowl == <<nodes, node_stack, title, pc, err, doc, pos, ev, call, ret, threads>>

\* cli = Command(...)
Construct ==
    /\ cmd = <<>>
    /\ cmd' \in { << self >> : self \in Declared }
    /\ UNCHANGED <<bowl, repo>>

\* cli.parse_args(args)
ParseArgs ==
    \E args \in ArgLists(MaxArgs) :
        /\ cmd # <<>>
        /\ cmd' = << parse_args(cmd[1], args) >>
        /\ UNCHANGED <<bowl, repo>>

InitCask ==
    /\ nodes = <<>>
    /\ node_stack = <<>>
    /\ title = None
    /\ pc = "idle"
    /\ err = NoError
    /\ doc = <<>>
    /\ pos = 0
    /\ ev = Token("none", "", <<>>, "")
    /\ call = NoCall
    /\ ret = <<>>
    /\ Nowhere

NextCask == Construct \/ ParseArgs

SpecCask == InitCask /\ [][NextCask]_vars

\* ---------------------------------------------------- lib/barrel.py
\* The table t(id, name) of the database, and the names a client uses for
\* columns: nocol is not a column of t.
Columns == {"id", "name"}
ClauseColumns == {"id", "nocol"}

\* The records a client inserts or updates with: (key, value) pairs in
\* the order of record.items().
Records ==
    { << <<"name", "a">> >>,
      << <<"id", 2>>, <<"name", "b">> >> }

\* What the cursor yields for a SELECT: the rows are the database's.
RowLists == { <<>>, << "row" >> }

\* WhereClause with its four fields.
WhereClause(is_or, lhs, op, rhs) ==
    [ is_or |-> is_or, lhs |-> lhs, op |-> op, rhs |-> rhs ]

\* Repository.reset with the where clauses kept.
reset_keeps_where(self) ==
    [self EXCEPT !._order_by = "", !._selected_columns = <<>>]

\* Repository.reset
reset(self) ==
    [self EXCEPT !._order_by = "",
                 !._selected_columns = <<>>,
                 !._where_clauses = <<>>]

\* Repository.__init__(table_name, ctx), with the record of the last call:
\* its name, the statement handed to the cursor and its arguments, whether
\* the cursor raised, and what the call returned.
Repository(table_name) ==
    reset([ _table_name |-> table_name,
            _order_by |-> "", _selected_columns |-> <<>>,
            _where_clauses |-> <<>>,
            op |-> "", query |-> "", args |-> <<>>,
            raised |-> FALSE, result |-> <<>> ])

\* ",".join(items)
RECURSIVE join(_, _)
join(items, i) ==
    IF i > Len(items)
    THEN ""
    ELSE (IF i = 1 THEN "" ELSE ",") \o items[i] \o join(items, i + 1)

\* The loop `for i, clause in enumerate(self._where_clauses)` on the query
\* text, and the arguments it appends.
RECURSIVE where_sql(_, _)
where_sql(clauses, i) ==
    IF i > Len(clauses)
    THEN ""
    ELSE (IF i # 1
          THEN IF clauses[i].is_or THEN " OR " ELSE " AND "
          ELSE "")
         \o clauses[i].lhs \o " " \o clauses[i].op \o " ?"
         \o where_sql(clauses, i + 1)
where_part(clauses) ==
    IF Len(clauses) > 0 THEN " WHERE " \o where_sql(clauses, 1) ELSE ""
where_args(clauses) == [i \in 1..Len(clauses) |-> clauses[i].rhs]

\* The loop over record.items() of update on the query text.
RECURSIVE set_sql(_, _)
set_sql(record, i) ==
    IF i > Len(record)
    THEN ""
    ELSE " " \o record[i][1] \o " = ?" \o set_sql(record, i + 1)

\* cur.execute(query, args) returns unless sqlite3 rejects the statement:
\* a name that is no column of the table, or a SET list of several
\* assignments, which update writes without commas.
executes(clauses, sets) ==
    /\ \A i \in 1..Len(clauses) : clauses[i].lhs \in Columns
    /\ Len(sets) <= 1

\* The call `op` hands `query` and `args` to the cursor; when the cursor
\* returns, reset() runs and the call returns `result`; when it raises,
\* the exception leaves the call before reset().
run(self, op, query, args, accepted, result) ==
    IF accepted
    THEN [ reset(self) EXCEPT
             !.op = op, !.query = query, !.args = args,
             !.raised = FALSE, !.result = result ]
    ELSE [ self EXCEPT
             !.op = op, !.query = query, !.args = args,
             !.raised = TRUE, !.result = <<>> ]

\* Repository.get as called by `op`, which returns `result` from it.
get_as(self, op, result) ==
    LET selected_columns == IF Len(self._selected_columns) > 0
                            THEN join(self._selected_columns, 1)
                            ELSE "*"
        query == "SELECT " \o selected_columns \o " FROM "
                 \o self._table_name \o where_part(self._where_clauses)
    IN run(self, op, query, where_args(self._where_clauses),
           executes(self._where_clauses, <<>>), result)

\* ctx.repo("t")
NewRepository ==
    /\ repo = <<>>
    /\ repo' = << Repository("t") >>
    /\ UNCHANGED <<bowl, cmd>>

\* Repository.where, as where_eq calls it.
where ==
    \E lhs \in ClauseColumns :
        /\ repo # <<>>
        /\ Len(repo[1]._where_clauses) < MaxClauses
        /\ repo' = << [repo[1] EXCEPT
                         !._where_clauses =
                             Append(@, WhereClause(FALSE, lhs, "=", 1)),
                         !.op = "where", !.raised = FALSE,
                         !.result = <<>>] >>
        /\ UNCHANGED <<bowl, cmd>>

\* Repository.or_where, as or_where_eq calls it.
or_where ==
    \E lhs \in ClauseColumns :
        /\ repo # <<>>
        /\ Len(repo[1]._where_clauses) < MaxClauses
        /\ repo' = << [repo[1] EXCEPT
                         !._where_clauses =
                             Append(@, WhereClause(TRUE, lhs, "=", 1)),
                         !.op = "or_where", !.raised = FALSE,
                         !.result = <<>>] >>
        /\ UNCHANGED <<bowl, cmd>>

\* Repository.get
Repository_get ==
    /\ repo # <<>>
    /\ repo' = << get_as(repo[1], "get", << "QueryResult" >>) >>
    /\ UNCHANGED <<bowl, cmd>>

\* Repository.all: reset(), then get() and every row of the result.
all ==
    \E rows \in RowLists :
        /\ repo # <<>>
        /\ repo' = << get_as(reset(repo[1]), "all", << rows >>) >>
        /\ UNCHANGED <<bowl, cmd>>

\* Repository.first: get() and the first row, or None.
first ==
    \E rows \in RowLists :
        /\ repo # <<>>
        /\ repo' = << get_as(repo[1], "first",
                             IF rows = <<>> THEN <<>> ELSE << rows[1] >>) >>
        /\ UNCHANGED <<bowl, cmd>>

\* Repository.insert
insert ==
    \E record \in Records :
        LET self == repo[1]
            keys == [i \in 1..Len(record) |-> record[i][1]]
            placeholders == [i \in 1..Len(record) |-> "?"]
            values == [i \in 1..Len(record) |-> record[i][2]]
            sql == "INSERT INTO " \o self._table_name \o "("
                       \o join(keys, 1) \o ") VALUES ("
                       \o join(placeholders, 1) \o ")"
        IN /\ repo # <<>>
           /\ repo' = << run(self, "insert", sql, values,
                             executes(<<>>, <<>>), <<>>) >>
           /\ UNCHANGED <<bowl, cmd>>

\* Repository.update
update ==
    \E record \in Records :
        LET self == repo[1]
            query == "UPDATE " \o self._table_name \o " SET"
                         \o set_sql(record, 1)
                         \o where_part(self._where_clauses)
            args == [i \in 1..Len(record) |-> record[i][2]]
                        \o where_args(self._where_clauses)
        IN /\ repo # <<>>
           /\ repo' = << run(self, "update", query, args,
                             executes(self._where_clauses, record), <<>>) >>
           /\ UNCHANGED <<bowl, cmd>>

\* Repository.delete
delete ==
    LET self == repo[1]
        query == "DELETE FROM " \o self._table_name
                     \o where_part(self._where_clauses)
    IN /\ repo # <<>>
       /\ repo' = << run(self, "delete", query,
                         where_args(self._where_clauses),
                         executes(self._where_clauses, <<>>), <<>>) >>
       /\ UNCHANGED <<bowl, cmd>>

NextRepo ==
    \/ NewRepository
    \/ where
    \/ or_where
    \/ Repository_get
    \/ all
    \/ first
    \/ insert
    \/ update
    \/ delete

\* No Repository yet: the context has just been opened.
InitRepo ==
    /\ nodes = <<>>
    /\ node_stack = <<>>
    /\ title = None
    /\ pc = "idle"
    /\ err = NoError
    /\ doc = <<>>
    /\ pos = 0
    /\ ev = Token("none", "", <<>>, "")
    /\ call = NoCall
    /\ ret = <<>>
    /\ Nowhere

SpecRepo == InitRepo /\ [][NextRepo]_vars

\* ------------------------------ a whole parse, as a function of the source
\* The fields of a _CustomHTMLParser, with the heap its nodes live on and
\* the exception raised so far.
parser_init ==
    [ nodes |-> << DOMNode(ROOT_TAG, <<>>) >>,
      node_stack |-> << root_node >>,
      title |-> None,
      err |-> NoError ]

\* handle_starttag on a parser value.
on_starttag(b, tag, attrs) ==
    IF b.node_stack = <<>>
    THEN [b EXCEPT !.err = "IndexError"]
    ELSE LET dom == Len(b.nodes) + 1
             top == b.node_stack[Len(b.node_stack)]
             heap == Append(append_child(b.nodes, top, ChildNode(dom)),
                            DOMNode(tag, dom_attrs(attrs)))
         IN IF "VOID_TAGS" \in GlobalNames
            THEN [b EXCEPT !.nodes = heap,
                           !.node_stack = IF tag \notin _VOID_TAGS
                                          THEN Append(@, dom)
                                          ELSE @]
            ELSE [b EXCEPT !.nodes = heap, !.err = "NameError"]

\* handle_endtag on a parser value.
on_endtag(b, tag) ==
    IF b.node_stack = <<>>
    THEN [b EXCEPT !.err = "IndexError"]
    ELSE IF tag = b.nodes[b.node_stack[Len(b.node_stack)]].tag
         THEN [b EXCEPT !.node_stack = SubSeq(@, 1, Len(@) - 1)]
         ELSE b

\* handle_data on a parser value.
on_data(b, data) ==
    IF Len(b.node_stack) > 0
    THEN LET top == b.node_stack[Len(b.node_stack)]
         IN [b EXCEPT !.title = IF b.nodes[top].tag = "title" /\ @ = None
                                THEN data
                                ELSE @,
                      !.nodes = append_child(@, top, TextLeaf(data))]
    ELSE b

\* One token of the source handed to its handler. Comments, declarations
\* and (with convert_charrefs off) references reach handlers that pass.
goahead(b, tok) ==
    CASE tok.kind = "StartTag" -> on_starttag(b, tok.tag, tok.attrs)
      [] tok.kind = "EndTag" -> on_endtag(b, tok.tag)
      [] tok.kind = "Text" -> on_data(b, tok.data)
      [] tok.kind = "Reference" ->
            IF convert_charrefs THEN on_data(b, unescape(tok.data)) ELSE b
      [] OTHER -> b

\* feed(source): the tokens in order; an exception ends the call.
RECURSIVE feed(_, _)
feed(b, tokens) ==
    IF tokens = <<>> \/ b.err # NoError
    THEN b
    ELSE feed(goahead(b, Head(tokens)), Tail(tokens))

\* accumulate: feed, then the assertion on the bottom of the stack.
accumulate(tokens) ==
    LET b == feed(parser_init, tokens)
    IN IF b.err # NoError
       THEN b
       ELSE IF b.node_stack = <<>>
       THEN [b EXCEPT !.err = "IndexError"]
       ELSE IF root_node # b.node_stack[1]
       THEN [b EXCEPT !.err = "AssertionError"]
       ELSE b

\* parse_document(source): the heap, the exception that propagated, and
\* the Document returned (<<>> when the call raised).
parse_document(tokens) ==
    LET b == accumulate(tokens)
    IN [ nodes |-> b.nodes,
         err |-> b.err,
         doc |-> IF b.err = NoError
                 THEN << DOMDocument(root_node, b.title) >>
                 ELSE <<>> ]

\* str(value) as the f-string of _render formats an attribute value.
str(value) == IF value = None THEN "None" ELSE value

\* attrs.items() of a node, each value formatted: the (key, value) pairs
\* the tokenizer reads back from the rendered open tag.
RECURSIVE items(_)
items(attrs) ==
    IF DOMAIN attrs = {}
    THEN <<>>
    ELSE LET key == CHOOSE k \in DOMAIN attrs : TRUE
         IN << <<key, str(attrs[key])>> >> \o
            items([k \in DOMAIN attrs \ {key} |-> attrs[k]])

\* The line break and indentation _render puts between two parts.
Indent == "\n"

\* The tokens html.parser reads from DOMNode._render: the open tag with
\* the tag name lowercased and the attributes, every child on a line of
\* its own (a node by its own render, a str as it is), the close tag.
RECURSIVE _render(_, _)
RECURSIVE _render_children(_, _, _)
_render_children(heap, node, i) ==
    IF i > Len(heap[node].children)
    THEN <<>>
    ELSE LET child == heap[node].children[i]
         IN (IF child.kind = "node"
             THEN << Token("Text", "", <<>>, Indent) >> \o
                  _render(heap, child.id)
             ELSE << Token("Text", "", <<>>, child.data) >>)
            \o _render_children(heap, node, i + 1)

_render(heap, node) ==
    << Token("StartTag", Lower(heap[node].tag), items(heap[node].attrs), "") >>
    \o _render_children(heap, node, 1)
    \o << Token("Text", "", <<>>, Indent),
          Token("EndTag", Lower(heap[node].tag), <<>>, "") >>

\* ------------------------------------------------------------- claims
Delivered(kinds) == pos' = pos + 1 /\ ev'.kind \in kinds

\* C1: parse_document consumes every token sequence without raising and
\* returns a Document whose root is the synthetic root.
C1_ParseNeverRaises ==
    /\ err = NoError
    /\ pc # "raised"
    /\ (pc = "returned" => doc # <<>> /\ doc[1].root = root_node)

\* C2: a StartTag with a non-void name appends a node with that tag and
\* those attributes as the last child of the stack top and pushes it, so
\* that the stack grows by exactly one and the new node is its top.
C2_StartTagPushes ==
    [][ (Delivered({"StartTag"}) /\ ev'.tag \notin _VOID_TAGS) =>
            LET dom == Len(nodes) + 1
            IN /\ Len(nodes') = dom
               /\ nodes'[dom].tag = ev'.tag
               /\ nodes'[dom].attrs = dom_attrs(ev'.attrs)
               /\ nodes'[Top].children =
                      Append(nodes[Top].children, ChildNode(dom))
               /\ node_stack' = Append(node_stack, dom) ]_vars

\* C3: no element with a void tag is ever on the open-element stack; a
\* StartTag for a void tag appends a childless node to the stack top and
\* leaves the stack unchanged, and a void node never gets a child.
C3_VoidNeverOpen ==
    /\ [](/\ \A i \in 1..Len(node_stack) :
                nodes[node_stack[i]].tag \notin _VOID_TAGS
          /\ \A n \in 1..Len(nodes) :
                nodes[n].tag \in _VOID_TAGS => nodes[n].children = <<>>)
    /\ [][ (Delivered({"StartTag"}) /\ ev'.tag \in _VOID_TAGS) =>
               LET dom == Len(nodes) + 1
               IN /\ Len(nodes') = dom
                  /\ nodes'[dom] = DOMNode(ev'.tag, dom_attrs(ev'.attrs))
                  /\ nodes'[Top].children =
                         Append(nodes[Top].children, ChildNode(dom))
                  /\ node_stack' = node_stack ]_vars

\* A void StartTag was delivered after some text: its node is the last
\* child of the root, has no children, and the stack is still [root].
C3_Witness ==
    /\ ev.kind = "StartTag" /\ ev.tag = "br"
    /\ Len(nodes) = 2 /\ nodes[2].tag = "br" /\ nodes[2].children = <<>>
    /\ Len(nodes[root_node].children) >= 2
    /\ nodes[root_node].children[Len(nodes[root_node].children)] = ChildNode(2)
    /\ node_stack = << root_node >>

\* C5: an EndTag whose name differs from the tag of the stack top changes
\* neither the stack, the tree nor the title and raises nothing.
C5_UnmatchedEndTagIgnored ==
    [][ (/\ Delivered({"EndTag"})
         /\ node_stack # <<>>
         /\ ev'.tag # nodes[Top].tag) =>
            UNCHANGED <<nodes, node_stack, title, pc, err, doc>> ]_vars

\* An unmatched EndTag was delivered onto a tree that already has content.
C5_Witness ==
    /\ ev.kind = "EndTag" /\ ev.tag = "p"
    /\ ev.tag # nodes[node_stack[Len(node_stack)]].tag
    /\ nodes[root_node].children # <<>>
    /\ pc = "feeding" /\ err = NoError

\* C6: the synthetic root is never closed by input: the stack is never
\* empty, its bottom element is the synthetic root, and the assertion at
\* the end of accumulate never fails.
C6_RootNeverClosed ==
    /\ Len(node_stack) >= 1
    /\ node_stack[1] = root_node
    /\ err \notin {"IndexError", "AssertionError"}

\* The markup closed a tag named like the root and the parse returned.
C6_Witness ==
    /\ ev.kind = "EndTag" /\ ev.tag = "document_root"
    /\ node_stack = << root_node >>
    /\ pc = "returned" /\ doc # <<>>

\* C9: Comment, CharacterReference, EntityReference and Declaration tokens
\* leave the stack, every node's children and the title unchanged.
C9_OtherTokensNoEffect ==
    [][ Delivered({"Comment", "Reference", "Declaration"}) =>
            UNCHANGED <<nodes, node_stack, title>> ]_vars

\* The nodes of the subtree of n, in depth-first document order.
RECURSIVE Preorder(_, _)
RECURSIVE PreorderFrom(_, _, _)
PreorderFrom(heap, n, i) ==
    IF i > Len(heap[n].children)
    THEN <<>>
    ELSE (IF heap[n].children[i].kind = "node"
          THEN Preorder(heap, heap[n].children[i].id)
          ELSE <<>>) \o PreorderFrom(heap, n, i + 1)
Preorder(heap, n) == << n >> \o PreorderFrom(heap, n, 1)

Owners == (IF doc = <<>> THEN {} ELSE {0}) \cup (1..Len(nodes))
OwnerRoot(o) == IF o = 0 THEN doc[1].root ELSE o
OwnerRec(o) == IF o = 0 THEN doc[1] ELSE nodes[o]
Scope(o) == Preorder(nodes, OwnerRoot(o))
Queries == {"get_by_tag", "get_by_id", "get_by_class_name"}
Keys == QueryTags \cup IdKeys \cup ClassKeys

\* The distinct tokens of a class attribute value.
Tokens(value) ==
    IF truthy(value)
    THEN { split(value)[i] : i \in 1..Len(split(value)) }
    ELSE {}

\* None for an empty list, as dict.get gives for a key never entered.
Listed(seq) == IF seq = <<>> THEN <<>> ELSE << seq >>

\* C11: for every key x, the empty string included, get_by_id(x) on an
\* owner without an id index returns a node iff some node of the owner's
\* scope has an id attribute equal to x, and the node returned has id x.
C11_GetByIdIff ==
    [][ \A o \in Owners, x \in IdKeys :
          (~OwnerRec(o)._has_id_index /\ call' = Call("get_by_id", o, x)) =>
             /\ (ret' # <<>>) <=>
                    (\E i \in 1..Len(Scope(o)) :
                        attr_get(nodes[Scope(o)[i]].attrs, "id") = x)
             /\ ret' # <<>> => attr_get(nodes[ret'[1]].attrs, "id") = x
      ]_vars

\* C12: when several nodes of an owner's scope carry the same id value,
\* the first get_by_id of that value returns the one that is last in
\* depth-first document order, for node and for Document owners.
C12_LastIdWins ==
    [][ \A o \in Owners, x \in IdKeys :
          LET same == SelectSeq(Scope(o),
                          LAMBDA n : attr_get(nodes[n].attrs, "id") = x)
          IN (/\ ~OwnerRec(o)._has_id_index
              /\ call' = Call("get_by_id", o, x)
              /\ Len(same) >= 2) =>
                 ret' = << same[Len(same)] >> ]_vars

\* C13: the first get_by_class_name(c) lists each node whose class
\* attribute contains the token c exactly once, in document order, also
\* when c is repeated inside the attribute; nodes without a class
\* attribute are listed under no token.
C13_ClassOncePerToken ==
    [][ \A o \in Owners, c \in ClassKeys :
          (/\ ~OwnerRec(o)._has_class_index
           /\ call' = Call("get_by_class_name", o, c)) =>
              ret' = Listed(SelectSeq(Scope(o),
                         LAMBDA n : c \in Tokens(
                             attr_get(nodes[n].attrs, "class")))) ]_vars

\* C14: a first query whose key matches no node of the scope returns None
\* and raises nothing, for each of the three kinds and for node and
\* Document owners; a node without id (class) attribute has no entry in
\* any id (class) map.
C14_NoMatchIsNone ==
    /\ [][ \A o \in Owners, k \in Keys :
             /\ (/\ ~OwnerRec(o)._has_tag_index
                 /\ call' = Call("get_by_tag", o, k)
                 /\ \A i \in 1..Len(Scope(o)) : nodes[Scope(o)[i]].tag # k)
                    => (ret' = <<>> /\ err' = NoError /\ pc' = pc)
             /\ (/\ ~OwnerRec(o)._has_id_index
                 /\ call' = Call("get_by_id", o, k)
                 /\ \A i \in 1..Len(Scope(o)) :
                        attr_get(nodes[Scope(o)[i]].attrs, "id") # k)
                    => (ret' = <<>> /\ err' = NoError /\ pc' = pc)
             /\ (/\ ~OwnerRec(o)._has_class_index
                 /\ call' = Call("get_by_class_name", o, k)
                 /\ \A i \in 1..Len(Scope(o)) :
                        k \notin Tokens(
                            attr_get(nodes[Scope(o)[i]].attrs, "class")))
                    => (ret' = <<>> /\ err' = NoError /\ pc' = pc) ]_vars
    /\ [](\A o \in Owners :
             /\ \A k \in DOMAIN OwnerRec(o)._id_to_node_map :
                   "id" \in DOMAIN nodes[OwnerRec(o)._id_to_node_map[k]].attrs
             /\ \A k \in DOMAIN OwnerRec(o)._class_to_node_map :
                   \A i \in 1..Len(OwnerRec(o)._class_to_node_map[k]) :
                       "class" \in DOMAIN
                           nodes[OwnerRec(o)._class_to_node_map[k][i]].attrs)

\* A class query found nothing although the owner's class map has entries:
\* the root has no class attribute and the two other nodes have class "x x".
C14_Witness ==
    /\ call.op = "get_by_class_name" /\ call.name = "y"
    /\ ret = <<>>
    /\ Len(nodes) = 3
    /\ nodes[root_node].attrs = <<>>
    /\ \A n \in 2..3 : attr_get(nodes[n].attrs, "class") = "x x"
    /\ OwnerRec(call.owner)._has_class_index
    /\ DOMAIN OwnerRec(call.owner)._class_to_node_map = {"x"}

\* C15: once an owner's index of a kind is built, the flag stays set and
\* the stored map is changed neither by queries nor by append_child, and
\* a query of that kind returns the stored entry.
C15_BuiltIndexIsFrozen ==
    [][ \A o \in Owners :
          /\ OwnerRec(o)._has_tag_index =>
                /\ OwnerRec(o)'._has_tag_index
                /\ OwnerRec(o)'._tag_to_node_map
                       = OwnerRec(o)._tag_to_node_map
                /\ \A k \in Keys : call' = Call("get_by_tag", o, k) =>
                       ret' = get(OwnerRec(o)._tag_to_node_map, k)
          /\ OwnerRec(o)._has_id_index =>
                /\ OwnerRec(o)'._has_id_index
                /\ OwnerRec(o)'._id_to_node_map
                       = OwnerRec(o)._id_to_node_map
                /\ \A k \in Keys : call' = Call("get_by_id", o, k) =>
                       ret' = get(OwnerRec(o)._id_to_node_map, k)
          /\ OwnerRec(o)._has_class_index =>
                /\ OwnerRec(o)'._has_class_index
                /\ OwnerRec(o)'._class_to_node_map
                       = OwnerRec(o)._class_to_node_map
                /\ \A k \in Keys : call' = Call("get_by_class_name", o, k) =>
                       ret' = get(OwnerRec(o)._class_to_node_map, k)
      ]_vars

\* The root node built its tag index when it was alone; two p nodes were
\* appended since, and get_by_tag("p") on the root still returns None.
C15_Witness ==
    /\ call = Call("get_by_tag", root_node, "p")
    /\ nodes[root_node]._has_tag_index
    /\ Len(nodes) = 3
    /\ nodes[2].tag = "p"
    /\ ret = <<>>

C20_AppendOnly ==
    [][ /\ Delivered({"StartTag", "Text"}) =>
              /\ node_stack # <<>>
              /\ nodes'[Top].children =
                     Append(nodes[Top].children,
                            IF ev'.kind = "StartTag"
                            THEN ChildNode(Len(nodes) + 1)
                            ELSE TextLeaf(ev'.data))
              /\ ev'.kind = "StartTag" =>
                     /\ Len(nodes') = Len(nodes) + 1
                     /\ nodes'[Len(nodes')].tag = ev'.tag
                     /\ nodes'[Len(nodes')].children = <<>>
              /\ \A n \in 1..Len(nodes) :
                     n # Top => nodes'[n].children = nodes[n].children
        /\ Len(nodes') >= Len(nodes)
        /\ \A n \in 1..Len(nodes) :
              /\ Len(nodes'[n].children) >= Len(nodes[n].children)
              /\ SubSeq(nodes'[n].children, 1, Len(nodes[n].children)) =
                     nodes[n].children ]_vars

\* A start tag delivered after a text run: the root's children are the
\* text leaf followed by the new node.
C20_Witness ==
    /\ ev.kind = "StartTag"
    /\ Len(nodes) = 2
    /\ Len(nodes[root_node].children) = 2
    /\ nodes[root_node].children[1].kind = "text"
    /\ nodes[root_node].children[2] = ChildNode(2)

\* The tokens of
\* <html><head><title>Hi</title></head><body><p id="a" class="x y">Hello</p>
\* <br/><p class="x">World</p></body></html>, with <br/> delivered as a
\* start tag followed by an end tag.
Example ==
    << Token("StartTag", "html", <<>>, ""),
       Token("StartTag", "head", <<>>, ""),
       Token("StartTag", "title", <<>>, ""),
       Token("Text", "", <<>>, "Hi"),
       Token("EndTag", "title", <<>>, ""),
       Token("EndTag", "head", <<>>, ""),
       Token("StartTag", "body", <<>>, ""),
       Token("StartTag", "p", << <<"id", "a">>, <<"class", "x y">> >>, ""),
       Token("Text", "", <<>>, "Hello"),
       Token("EndTag", "p", <<>>, ""),
       Token("StartTag", "br", <<>>, ""),
       Token("EndTag", "br", <<>>, ""),
       Token("StartTag", "p", << <<"class", "x">> >>, ""),
       Token("Text", "", <<>>, "World"),
       Token("EndTag", "p", <<>>, ""),
       Token("EndTag", "body", <<>>, ""),
       Token("EndTag", "html", <<>>, "") >>

\* The parser of the running call, as a value.
Builder ==
    [ nodes |-> nodes, node_stack |-> node_stack,
      title |-> title, err |-> err ]

\* The running call has consumed the first pos tokens of Example.
OnExample ==
    /\ pos <= Len(Example)
    /\ pos > 0 => ev = Example[pos]
    /\ Builder = feed(parser_init, SubSeq(Example, 1, pos))

\* C18: the parse of Example consumes every token of it and returns a
\* Document with title "Hi" whose get_by_tag("p") has length 2, whose
\* get_by_id("a") is the first p, whose get_by_class_name("x") is both p
\* nodes in order, and whose br node has no children.
C18_ExampleDocument ==
    OnExample =>
        /\ err = NoError
        /\ pc # "raised"
        /\ (pos = Len(Example) /\ pc = "returned") =>
              LET root == doc[1].root
                  tags == DOMDocument_build_tag_index(nodes, <<>>, root)
                  ids == DOMDocument_build_id_index(nodes, <<>>, root)
                  classes == DOMDocument_build_class_index(nodes, <<>>, root)
                  ps == get(tags, "p")
                  br == get(tags, "br")
              IN /\ doc[1].page_title = "Hi"
                 /\ ps # <<>> /\ Len(ps[1]) = 2
                 /\ get(ids, "a") = << ps[1][1] >>
                 /\ get(classes, "x") = ps
                 /\ br # <<>> /\ Len(br[1]) = 1
                 /\ nodes[br[1][1]].children = <<>>

\* Tag, attribute mapping and the shapes of the child nodes in order, text
\* leaves left out.
RECURSIVE Shape(_, _)
RECURSIVE ShapeFrom(_, _, _)
ShapeFrom(heap, n, i) ==
    IF i > Len(heap[n].children)
    THEN <<>>
    ELSE (IF heap[n].children[i].kind = "node"
          THEN << Shape(heap, heap[n].children[i].id) >>
          ELSE <<>>) \o ShapeFrom(heap, n, i + 1)
Shape(heap, n) ==
    [ tag |-> heap[n].tag, attrs |-> heap[n].attrs,
      kids |-> ShapeFrom(heap, n, 1) ]

\* C19: for every node of a parsed tree, parsing the render of the node
\* returns a Document whose root has exactly one child node, and that node
\* has the tag, the attribute mapping and the order of child tags of the
\* rendered node, at every depth.
C19_RenderReparse ==
    pc = "returned" =>
        \A n \in 1..Len(nodes) :
            LET r == parse_document(_render(nodes, n))
            IN /\ r.err = NoError
               /\ r.doc # <<>>
               /\ ShapeFrom(r.nodes, r.doc[1].root, 1) =
                      << Shape(nodes, n) >>

\* The places (parent, position) at which node n is a child.
Places(n) ==
    { <<m, i>> \in (1..Len(nodes)) \X (1..(Len(nodes) + MaxTokens)) :
          /\ i <= Len(nodes[m].children)
          /\ nodes[m].children[i] = ChildNode(n) }

\* C21: in every builder state the structure is a tree rooted at the
\* synthetic root: the root is the child of no node, every node created by
\* a StartTag occurs exactly once as a child, of exactly one node, and
\* every created node is reached from the root.
C21_TreeRootedAtRoot ==
    /\ nodes[root_node].tag = ROOT_TAG
    /\ Places(root_node) = {}
    /\ \A n \in 2..Len(nodes) : Cardinality(Places(n)) = 1
    /\ \A m \in 1..Len(nodes) : \A i \in 1..Len(nodes[m].children) :
          nodes[m].children[i].kind = "node" =>
              nodes[m].children[i].id \in 2..Len(nodes)
    /\ { Preorder(nodes, root_node)[i] :
            i \in 1..Len(Preorder(nodes, root_node)) } = 1..Len(nodes)

\* A StartTag has created a node after a text run: the node is the second
\* child of the root and the input ends with it unclosed.
C21_Witness ==
    /\ Len(nodes) = 2
    /\ nodes[2].tag = "p"
    /\ Places(2) = { <<root_node, 2>> }
    /\ node_stack = << root_node >>

Duplicated(seq) ==
    \E i \in 1..Len(seq), j \in 1..Len(seq) : i # j /\ seq[i] = seq[j]

\* A tag or class map of the owner lists a node twice under one key.
ListsTwice(owner) ==
    \E kind \in {"tag", "class"} :
        \E key \in DOMAIN index_map(owner, kind) :
            Duplicated(index_map(owner, kind)[key])

\* C22: two first get_by_tag (get_by_class_name) calls on one owner list
\* a node twice only when both callers run the build, which takes the
\* second call to begin before the first has set the flag; when one call
\* is over before the other begins, the second caller does not build and
\* no node is listed twice.
C22_TwiceOnlyWhenInterleaved ==
    \A owner \in {0, root_node} :
        ListsTwice(owner) =>
            \A t \in Threads :
                /\ threads[t].owner = owner
                /\ threads[t].visits # <<>>

\* The arguments of the last parse_args call that are not options.
Positional(args) == SelectSeq(args, LAMBDA arg : ~startswith_dash(arg))

\* C25: parse_args collects every argument that is not an option as a
\* positional value parsed with the kind of the declared Arg at its place,
\* so that a successful call returns one value per declared Arg, and it
\* returns "not enough arguments provided" when the list holds fewer such
\* arguments than the command declares.
C25_PositionalsCollected ==
    (cmd # <<>> /\ cmd[1].out # <<>>) =>
        LET self == cmd[1]
            out == self.out[1]
            given == Positional(self.argv)
        IN /\ Len(given) < Len(self.args) =>
                 out.err = "not enough arguments provided"
           /\ out.err = None =>
                 /\ Len(out.args) = Len(self.args)
                 /\ \A k \in 1..Len(self.args) :
                       out.args[k] =
                           parse_value(given[k], self.args[k].kind)[1]

\* The option an argument names, and whether it is written without value.
NameOf(arg) ==
    IF contains_eq(lstrip_dash(arg))
    THEN split_eq(lstrip_dash(arg))[1]
    ELSE lstrip_dash(arg)
Bare(arg) == startswith_dash(arg) /\ ~contains_eq(lstrip_dash(arg))

\* The declared options an argument names (by long or short name).
OptsNamed(self, arg) ==
    { i \in 1..Len(self.opts) :
          /\ startswith_dash(arg)
          /\ NameOf(arg) \in {self.opts[i].name, self.opts[i].short} }

\* C26: a declared Bool option written as a bare flag is parsed as True
\* (under its long or its short name) wherever it stands in the list, and
\* the call treats the other arguments as it treats them when the flag is
\* not there: the same error or success and the same positional values.
C26_BareFlagIsTrue ==
    (cmd # <<>> /\ cmd[1].out # <<>>) =>
        LET self == cmd[1]
            out == self.out[1]
        IN \A i \in 1..Len(self.argv), o \in 1..Len(self.opts) :
              (/\ Bare(self.argv[i])
               /\ o \in OptsNamed(self, self.argv[i])
               /\ self.opts[o].kind = "Bool"
               /\ \A j \in 1..Len(self.argv) :
                     j # i => o \notin OptsNamed(self, self.argv[j])) =>
                 LET rest == SubSeq(self.argv, 1, i - 1) \o
                             SubSeq(self.argv, i + 1, Len(self.argv))
                     without == parse_args(self, rest).out[1]
                 IN /\ out.err = without.err
                    /\ out.err = None =>
                          /\ out.args = without.args
                          /\ \E key \in {self.opts[o].name,
                                          self.opts[o].short}
                                            \cap DOMAIN out.opts :
                                out.opts[key] = True

\* An argument with the short name v written as the long name verbose.
LongForm(arg) ==
    CASE arg = "-v" -> "--verbose"
      [] arg = "-v=true" -> "--verbose=true"
      [] OTHER -> arg

\* C27: a call returns the same options mapping as the call in which
\* every option given by its short name is given by its long name with
\* the same value, and the keys of the mapping of a successful call are
\* the long names of the declared options.
C27_ShortSameAsLong ==
    (cmd # <<>> /\ cmd[1].out # <<>>) =>
        LET self == cmd[1]
            out == self.out[1]
            long == parse_args(self,
                        [k \in 1..Len(self.argv) |-> LongForm(self.argv[k])])
        IN /\ out.opts = long.out[1].opts
           /\ out.err = None =>
                 DOMAIN out.opts =
                     { self.opts[i].name : i \in 1..Len(self.opts) }

\* The calls of a Repository that execute a statement.
Executions == {"get", "first", "all", "insert", "update", "delete"}

\* Where clauses joined in insertion order, every clause after the first
\* preceded by its own connector.
RECURSIVE Joined(_)
Joined(clauses) ==
    LET n == Len(clauses)
        text == clauses[n].lhs \o " " \o clauses[n].op \o " ?"
    IN IF n = 1
       THEN text
       ELSE Joined(SubSeq(clauses, 1, n - 1))
                \o (IF clauses[n].is_or THEN " OR " ELSE " AND ") \o text

\* The SELECT statement over every column of t constrained by clauses.
Selecting(clauses) ==
    "SELECT * FROM t"
        \o (IF clauses = <<>> THEN "" ELSE " WHERE " \o Joined(clauses))

\* C28: after each get, first, all, insert, update or delete that returns,
\* the where clauses, selected columns and order of the Repository are
\* empty, so a select or delete that follows a returned execution directly
\* is constrained by nothing; all() queries without any where clause,
\* whatever was pending; get and first query with the pending clauses in
\* insertion order, each with its own AND/OR connector.
C28_ExecutionResetsBuilder ==
    [][ (repo # <<>> /\ repo' # <<>> /\ repo'[1].op \in Executions) =>
          LET before == repo[1]
              after == repo'[1]
          IN /\ ~after.raised =>
                    /\ after._where_clauses = <<>>
                    /\ after._selected_columns = <<>>
                    /\ after._order_by = ""
             /\ after.op = "all" =>
                    /\ after.query = Selecting(<<>>)
                    /\ after.args = <<>>
                    /\ after._where_clauses = <<>>
             /\ after.op \in {"get", "first"} =>
                    /\ after.query = Selecting(before._where_clauses)
                    /\ after.args =
                          [i \in 1..Len(before._where_clauses) |->
                              before._where_clauses[i].rhs]
             /\ ( /\ before.op \in Executions
                  /\ ~before.raised
                  /\ after.op \in {"get", "first", "all", "delete"} ) =>
                    /\ after.args = <<>>
                    /\ ~after.raised
       ]_vars

\* first() has returned a row after querying with two clauses, the second
\* an OR, and the Repository holds no clause any more.
C28_Witness ==
    /\ repo # <<>>
    /\ repo[1].op = "first"
    /\ ~repo[1].raised
    /\ repo[1].result = << "row" >>
    /\ repo[1].query = "SELECT * FROM t WHERE id = ? OR id = ?"
    /\ repo[1].args = <<1, 1>>
    /\ repo[1]._where_clauses = <<>>

====
